---- MODULE Spec2Model ----
(***************************************************************************)
(* Baseline Guard: the feature compliance oracle (FeatureManager), the     *)
(* script scanner (JSScanner), the style scanner (CSSScanner) and main().  *)
(*                                                                         *)
(* JavaScript strings are sequences of one-character strings, so that      *)
(* toLowerCase, parseInt and the template-literal cache key are computed   *)
(* rather than assumed.                                                    *)
(***************************************************************************)
EXTENDS Integers, Sequences, FiniteSets, TLC

VARIABLES
    features,        \* FeatureManager.features: [loaded, data]
    config,          \* the resolved Config object
    TZ,              \* the process time zone, hours east of UTC
    compliantCache,  \* FeatureManager.compliantCache: cache key -> boolean
    seenKeys,        \* JSScanner.seenKeys
    violations,      \* main's violations list
    cssViolations,   \* the violations list of CSSScanner.scanFiles
    inFlight,        \* the processor.process calls that have not settled
    pc,              \* position of main()
    jsFiles,         \* paths of the script files still to scan
    cssFiles,        \* paths of the stylesheets still to scan
    exitCode,        \* process exit code, -1 while running
    lastCall,        \* observation: the last isCompliant call and its outcome
    returned,        \* observation: every (name, boolean) isCompliant returned
    lastScan,        \* observation: the last scanFile call, its input and result
    log              \* observation: each file a scanner is done with, in order

vars == <<features, config, TZ, compliantCache, seenKeys, violations,
          cssViolations, inFlight, pc, jsFiles, cssFiles, exitCode, lastCall,
          returned, lastScan, log>>

-----------------------------------------------------------------------------
(* Bounds *)

MaxJsFiles == 2
MaxCssFiles == 2

-----------------------------------------------------------------------------
(* Strings *)

s_widely == <<"w","i","d","e","l","y">>
s_newly == <<"n","e","w","l","y">>
s_Newly == <<"N","e","w","l","y">>
s_2020 == <<"2","0","2","0">>
s_bogus == <<"x","1">>
s_true == <<"t","r","u","e">>
s_false == <<"f","a","l","s","e">>
s_at == <<"a","t">>
s_At == <<"A","t">>
s_fetch == <<"f","e","t","c","h">>
s_foo == <<"f","o","o">>
s_gap == <<"g","a","p">>
s_constructor == <<"c","o","n","s","t","r","u","c","t","o","r">>
s_array == <<"a","r","r","a","y">>
s_x == <<"x">>

UpperLetters == <<"A","B","C","D","E","F","G","H","I","J","K","L","M",
                  "N","O","P","Q","R","S","T","U","V","W","X","Y","Z">>
LowerLetters == <<"a","b","c","d","e","f","g","h","i","j","k","l","m",
                  "n","o","p","q","r","s","t","u","v","w","x","y","z">>

\* the lower-case letter of each upper-case letter
LowerOf ==
    [u \in {UpperLetters[i] : i \in DOMAIN UpperLetters} |->
        LowerLetters[CHOOSE i \in DOMAIN UpperLetters : UpperLetters[i] = u]]

LowerChar(ch) == IF ch \in DOMAIN LowerOf THEN LowerOf[ch] ELSE ch

\* String.prototype.toLowerCase
toLowerCase(s) == [i \in DOMAIN s |-> LowerChar(s[i])]

DigitChars == <<"0","1","2","3","4","5","6","7","8","9">>
\* the value of each decimal digit
DigitOf ==
    [c \in {DigitChars[i] : i \in DOMAIN DigitChars} |->
        (CHOOSE i \in DOMAIN DigitChars : DigitChars[i] = c) - 1]
IsDigit(ch) == ch \in DOMAIN DigitOf
DigitValue(ch) == DigitOf[ch]

RECURSIVE TrimStart(_)
TrimStart(s) == IF s # <<>> /\ Head(s) = " " THEN TrimStart(Tail(s)) ELSE s

RECURSIVE LeadingDigits(_, _)
LeadingDigits(s, acc) ==
    IF s # <<>> /\ IsDigit(Head(s))
    THEN LeadingDigits(Tail(s), acc * 10 + DigitValue(Head(s)))
    ELSE acc

\* parseInt(s, 10): leading white space, an optional sign, then the longest
\* prefix of digits; NaN when there is no digit.
parseInt(s) ==
    LET t == TrimStart(s)
        neg == t # <<>> /\ Head(t) = "-"
        u == IF t # <<>> /\ Head(t) \in {"-", "+"} THEN Tail(t) ELSE t
    IN IF u = <<>> \/ ~IsDigit(Head(u))
       THEN [nan |-> TRUE, val |-> 0]
       ELSE [nan |-> FALSE,
             val |-> IF neg THEN 0 - LeadingDigits(u, 0) ELSE LeadingDigits(u, 0)]

\* `${b}` of a boolean
BoolString(b) == IF b THEN s_true ELSE s_false

-----------------------------------------------------------------------------
(* Dates *)

\* absent date field (undefined / null)
NoDate == [y |-> 0, m |-> 0, d |-> 0]

\* new Date("YYYY-MM-DD").getFullYear(): a date-only string is midnight UTC,
\* getFullYear reads it back in local time; west of UTC that is the evening
\* before, which is the previous year on January 1st.
getFullYear(date) ==
    IF TZ < 0 /\ date.m = 1 /\ date.d = 1 THEN date.y - 1 ELSE date.y

TimeZones == {0 - 5, 0}

-----------------------------------------------------------------------------
(* Feature Manager *)

\* own properties of Object.prototype that any object literal inherits
ObjectPrototypeKeys == {s_constructor}

\* featureData.status || {}
EmptyStatus ==
    [baseline |-> "undefined", baseline_low_date |-> NoDate,
     baseline_high_date |-> NoDate]

\* this.features[featureName]: an own entry, else what the prototype chain
\* gives (a truthy value without a status), else undefined
LookupFeature(featureName) ==
    IF featureName \in DOMAIN features.data
    THEN [truthy |-> TRUE, status |-> features.data[featureName].status]
    ELSE IF featureName \in ObjectPrototypeKeys
         THEN [truthy |-> TRUE, status |-> EmptyStatus]
         ELSE [truthy |-> FALSE, status |-> EmptyStatus]

\* `${featureName}:${config.targetBaseline}:${config.failOnNewly}`
CacheKeyNoName(featureName) ==
    <<":">> \o config.targetBaseline \o <<":">> \o BoolString(config.failOnNewly)

CacheKey(featureName) ==
    featureName \o <<":">> \o config.targetBaseline
                \o <<":">> \o BoolString(config.failOnNewly)

\* the year branch of isCompliant
YearRule(status, targetYear) ==
    IF status.baseline_low_date # NoDate
    THEN getFullYear(status.baseline_low_date) <= targetYear
    ELSE IF status.baseline_high_date # NoDate
         THEN getFullYear(status.baseline_high_date) <= targetYear
         ELSE status.baseline = "high"

WidelyRuleLowToo(status) == status.baseline \in {"high", "low"}

\* the "widely" branch of isCompliant
WidelyRule(status) == status.baseline = "high"

NewlyRuleIgnoresStrict(status) == status.baseline \in {"high", "low"}

\* the "newly" branch of isCompliant
NewlyRule(status) ==
    status.baseline = "high" \/ (status.baseline = "low" /\ ~config.failOnNewly)

\* isCompliant, from the status on: the decision for a feature that was found
ComputeCompliance(status) ==
    LET target == toLowerCase(config.targetBaseline)
    IN IF target = s_widely THEN WidelyRule(status)
       ELSE IF target = s_newly THEN NewlyRule(status)
       ELSE LET targetYear == parseInt(target)
            IN IF ~targetYear.nan
               THEN YearRule(status, targetYear.val)
               ELSE FALSE   \* Unknown target -> conservative

Returns(b) == [kind |-> "return", value |-> b, error |-> ""]
Throws(e) == [kind |-> "throw", value |-> FALSE, error |-> e]

\* FeatureManager.isCompliant on a given memo table: the outcome, the memo
\* table afterwards, and whether the memo table answered
isCompliant(cache, featureName) ==
    IF ~features.loaded
    THEN [outcome |-> Throws("Features not loaded"), cache |-> cache,
          hit |-> FALSE]
    ELSE LET cacheKey == CacheKey(featureName)
             featureData == LookupFeature(featureName)
         IN IF cacheKey \in DOMAIN cache
            THEN [outcome |-> Returns(cache[cacheKey]), cache |-> cache,
                  hit |-> TRUE]
            ELSE IF ~featureData.truthy
                 THEN [outcome |-> Returns(TRUE),
                       cache |-> (cacheKey :> TRUE) @@ cache, hit |-> FALSE]
                 ELSE LET r == ComputeCompliance(featureData.status)
                      IN [outcome |-> Returns(r),
                          cache |-> (cacheKey :> r) @@ cache, hit |-> FALSE]

\* FeatureManager.isFalsePositive
isFalsePositive(featureName) ==
    /\ config.jsSettings.ignoreCommonFalsePositives
    /\ toLowerCase(featureName) \in config.jsWhitelist

-----------------------------------------------------------------------------
(* The Action entry point's oracle *)

\* the body of the loop of getCompliantFeatureIds: whether the feature with
\* this status is added to the set
addsFeature(status, lowerTarget, failOnNewly) ==
    LET lowDate == status.baseline_low_date
        targetYear == parseInt(lowerTarget)
        passes ==
            IF lowerTarget = s_widely THEN status.baseline = "high"
            ELSE IF lowerTarget = s_newly
                 THEN status.baseline \in {"high", "low"}
                 ELSE /\ ~targetYear.nan
                      /\ lowDate # NoDate
                      /\ getFullYear(lowDate) <= targetYear.val
    IN IF failOnNewly /\ status.baseline = "low" THEN FALSE ELSE passes

\* getCompliantFeatureIds(target, failOnNewly) over the loaded features:
\* it throws for a target that is no target, else returns the set of ids
getCompliantFeatureIds(target, failOnNewly) ==
    LET lowerTarget == toLowerCase(target)
    IN IF lowerTarget \notin {s_widely, s_newly} /\ parseInt(lowerTarget).nan
       THEN [thrown |-> TRUE, ids |-> {}]
       ELSE [thrown |-> FALSE,
             ids |-> {featureId \in DOMAIN features.data :
                        addsFeature(features.data[featureId].status,
                                    lowerTarget, failOnNewly)}]

-----------------------------------------------------------------------------
(* Syntax trees, as acorn produces them (locations: true; no parent links) *)

Identifier(name, line) == [type |-> "Identifier", name |-> name, line |-> line]
Literal(line) == [type |-> "Literal", line |-> line]
MemberExpression(object, property, computed, line) ==
    [type |-> "MemberExpression", object |-> object, property |-> property,
     computed |-> computed, line |-> line]
CallExpression(callee, arguments, line) ==
    [type |-> "CallExpression", callee |-> callee, arguments |-> arguments,
     line |-> line]
AssignmentExpression(left, right, line) ==
    [type |-> "AssignmentExpression", left |-> left, right |-> right,
     line |-> line]
ExpressionStatement(expression, line) ==
    [type |-> "ExpressionStatement", expression |-> expression, line |-> line]
VariableDeclarator(id, init, line) ==
    [type |-> "VariableDeclarator", id |-> id, init |-> init, line |-> line]
VariableDeclaration(declarations, line) ==
    [type |-> "VariableDeclaration", declarations |-> declarations,
     line |-> line]
Program(body) == [type |-> "Program", body |-> body, line |-> 1]

\* the node types scanFile registers a visitor for; a key such as
\* "VariableDeclarator:exit" names no node type, so walk.simple never calls it
VisitorTypes ==
    {"VariableDeclarator", "AssignmentExpression", "Identifier",
     "MemberExpression", "CallExpression"}

RECURSIVE WalkAll(_, _)
RECURSIVE Walk(_, _)

\* acorn-walk's base walker: the children of a node, in order
WalkChildren(type, node) ==
    CASE type = "Program" -> WalkAll(node.body, "Statement")
      [] type \in {"Statement", "Expression", "MemberPattern"} -> Walk(node, "")
      [] type = "ExpressionStatement" -> Walk(node.expression, "Expression")
      [] type = "VariableDeclaration" -> WalkAll(node.declarations, "")
      [] type = "VariableDeclarator" ->
            Walk(node.id, "Pattern") \o Walk(node.init, "Expression")
      [] type = "Pattern" ->
            IF node.type = "Identifier" THEN Walk(node, "VariablePattern")
            ELSE IF node.type = "MemberExpression"
                 THEN Walk(node, "MemberPattern")
                 ELSE Walk(node, "")
      [] type = "AssignmentExpression" ->
            Walk(node.left, "Pattern") \o Walk(node.right, "Expression")
      [] type = "MemberExpression" ->
            Walk(node.object, "Expression")
            \o (IF node.computed THEN Walk(node.property, "Expression")
                ELSE <<>>)
      [] type = "CallExpression" ->
            Walk(node.callee, "Expression")
            \o WalkAll(node.arguments, "Expression")
      [] OTHER -> <<>>   \* Identifier, Literal, VariablePattern: ignore

\* walk.simple's c(node, st, override): the children first, then the visitor
\* registered for the type the node was reached as
Walk(node, override) ==
    LET type == IF override # "" THEN override ELSE node.type
    IN WalkChildren(type, node)
       \o (IF type \in VisitorTypes THEN <<node>> ELSE <<>>)

WalkAll(nodes, override) ==
    IF nodes = <<>> THEN <<>>
    ELSE Walk(Head(nodes), override) \o WalkAll(Tail(nodes), override)

-----------------------------------------------------------------------------
(* JS Scanner *)

\* JSScanner.getNodeContext
getNodeContext(node) ==
    IF node.type = "CallExpression" THEN "function_call"
    ELSE IF node.type = "MemberExpression" THEN "property_access"
    ELSE IF node.type = "ImportDeclaration" THEN "import"
    ELSE "usage"

\* `${filePath}:${line}:${normalizedName}`
SeenKey(filePath, line, normalizedName) == <<filePath, line, normalizedName>>

\* the state a walk threads through its visitors
WalkState(cache, seen) ==
    [context |-> [inAssignment |-> FALSE, inDeclaration |-> FALSE],
     cache |-> cache, seenKeys |-> seen, violations |-> <<>>,
     thrown |-> FALSE]

checkFeatureNoDedup(featureName, node, filePath, st) ==
    LET normalizedName == toLowerCase(featureName)
        ic == isCompliant(st.cache, normalizedName)
    IN IF isFalsePositive(normalizedName) THEN st
       ELSE IF ic.outcome.kind = "throw" THEN [st EXCEPT !.thrown = TRUE]
       ELSE IF ic.outcome.value THEN [st EXCEPT !.cache = ic.cache]
       ELSE [st EXCEPT !.cache = ic.cache,
                       !.violations = Append(@,
                           [file |-> filePath, line |-> node.line,
                            feature |-> normalizedName, type |-> "js",
                            context |-> getNodeContext(node)])]

\* JSScanner.checkFeature; thrown records that isCompliant threw, which ends
\* the walk
checkFeature(featureName, node, filePath, st) ==
    LET normalizedName == toLowerCase(featureName)
        ic == isCompliant(st.cache, normalizedName)
        key == SeenKey(filePath, node.line, normalizedName)
    IN IF isFalsePositive(normalizedName) THEN st
       ELSE IF ic.outcome.kind = "throw" THEN [st EXCEPT !.thrown = TRUE]
       ELSE IF ic.outcome.value THEN [st EXCEPT !.cache = ic.cache]
       ELSE IF key \in st.seenKeys THEN [st EXCEPT !.cache = ic.cache]
       ELSE [st EXCEPT !.cache = ic.cache,
                       !.seenKeys = @ \cup {key},
                       !.violations = Append(@,
                           [file |-> filePath, line |-> node.line,
                            feature |-> normalizedName, type |-> "js",
                            context |-> getNodeContext(node)])]

\* node.parent: acorn sets no parent link
HasParent(node) == "parent" \in DOMAIN node

\* the Identifier visitor; node.parent, where a parser sets it, is
\* [type, role, computed] with role the parent's field that holds the node
VisitIdentifier(node, filePath, st) ==
    IF ~HasParent(node) THEN st
    ELSE IF /\ st.context.inDeclaration
            /\ node.parent.type = "VariableDeclarator"
            /\ node.parent.role = "id"
         THEN st
    ELSE IF /\ st.context.inAssignment
            /\ node.parent.type = "AssignmentExpression"
            /\ node.parent.role = "left"
         THEN st
    ELSE IF /\ node.parent.type = "MemberExpression"
            /\ node.parent.role = "property"
            /\ ~node.parent.computed
         THEN st
    ELSE IF /\ node.parent.type = "Property"
            /\ node.parent.role = "key"
            /\ ~node.parent.computed
         THEN st
    ELSE checkFeature(node.name, node, filePath, st)

VisitVariableDeclaratorAsUsage(node, filePath, st) ==
    checkFeature(node.id.name, node, filePath, st)

\* the VariableDeclarator visitor
VisitVariableDeclarator(node, filePath, st) ==
    [st EXCEPT !.context = [inAssignment |-> TRUE, inDeclaration |-> TRUE]]

\* the AssignmentExpression visitor
VisitAssignmentExpression(node, filePath, st) ==
    [st EXCEPT !.context.inAssignment = TRUE]

\* the MemberExpression visitor
VisitMemberExpression(node, filePath, st) ==
    IF node.property.type = "Identifier" /\ ~node.computed
    THEN checkFeature(node.property.name, node, filePath, st)
    ELSE st

\* the CallExpression visitor
VisitCallExpression(node, filePath, st) ==
    IF node.callee.type = "Identifier"
    THEN checkFeature(node.callee.name, node, filePath, st)
    ELSE IF /\ node.callee.type = "MemberExpression"
            /\ node.callee.property.type = "Identifier"
         THEN checkFeature(node.callee.property.name, node, filePath, st)
         ELSE st

\* the visitor walk.simple calls for a node
Visit(node, filePath, st) ==
    CASE node.type = "VariableDeclarator" ->
            VisitVariableDeclarator(node, filePath, st)
      [] node.type = "AssignmentExpression" ->
            VisitAssignmentExpression(node, filePath, st)
      [] node.type = "Identifier" -> VisitIdentifier(node, filePath, st)
      [] node.type = "MemberExpression" ->
            VisitMemberExpression(node, filePath, st)
      [] node.type = "CallExpression" ->
            VisitCallExpression(node, filePath, st)
      [] OTHER -> st

\* the visitors in walk order; an exception ends the walk (try/catch around
\* walk.simple)
RECURSIVE VisitAll(_, _, _)
VisitAll(nodes, filePath, st) ==
    IF nodes = <<>> \/ st.thrown THEN st
    ELSE VisitAll(Tail(nodes), filePath, Visit(Head(nodes), filePath, st))

-----------------------------------------------------------------------------
(* Source files *)

\* `array.name(-1);`
CallMemberStmt(name, line) ==
    ExpressionStatement(
        CallExpression(
            MemberExpression(Identifier(s_array, line), Identifier(name, line),
                             FALSE, line),
            <<Literal(line)>>, line), line)

\* `const name = 5;`
DeclStmt(name, line) ==
    VariableDeclaration(
        <<VariableDeclarator(Identifier(name, line), Literal(line), line)>>,
        line)

\* `array.name = 5;`
AssignMemberStmt(name, line) ==
    ExpressionStatement(
        AssignmentExpression(
            MemberExpression(Identifier(s_array, line), Identifier(name, line),
                             FALSE, line),
            Literal(line), line), line)

\* `array[name]();`
ComputedCallStmt(name, line) ==
    ExpressionStatement(
        CallExpression(
            MemberExpression(Identifier(s_array, line), Identifier(name, line),
                             TRUE, line),
            <<>>, line), line)

\* `const x = name;`
RefStmt(name, line) ==
    VariableDeclaration(
        <<VariableDeclarator(Identifier(s_x, line), Identifier(name, line),
                             line)>>, line)

\* `name();`
BareCallStmt(name, line) ==
    ExpressionStatement(CallExpression(Identifier(name, line), <<>>, line),
                        line)

\* `array.name;`
MemberReadStmt(name, line) ==
    ExpressionStatement(
        MemberExpression(Identifier(s_array, line), Identifier(name, line),
                         FALSE, line), line)

\* one-statement sources: every statement shape on `at`, a call of `At`,
\* a read of `constructor`
Statements(line) ==
    {CallMemberStmt(s_at, line), DeclStmt(s_at, line),
     AssignMemberStmt(s_at, line), ComputedCallStmt(s_at, line),
     RefStmt(s_at, line), BareCallStmt(s_at, line),
     MemberReadStmt(s_at, line), CallMemberStmt(s_At, line),
     MemberReadStmt(s_constructor, line)}

\* what fs.readFileSync and the parser give for a script file: unreadable,
\* blank, malformed, or a program of one statement, or of two calls on the
\* same line or on two lines
Unreadable == [readable |-> FALSE, text |-> "", ast |-> Program(<<>>)]
Blank == [readable |-> TRUE, text |-> "blank", ast |-> Program(<<>>)]
Malformed == [readable |-> TRUE, text |-> "malformed", ast |-> Program(<<>>)]
Parsed(body) == [readable |-> TRUE, text |-> "ok", ast |-> Program(body)]

JSFileContents ==
    {Unreadable, Blank, Malformed}
    \cup {Parsed(<<s>>) : s \in Statements(1)}
    \cup {Parsed(<<CallMemberStmt(n, 1), CallMemberStmt(n, l)>>) :
            n \in {s_at}, l \in {1, 2}}

Path(id, ext) == [id |-> id, ext |-> ext]

\* JSScanner.safeParseJS / safeParseTS: null for a blank or malformed source
safeParse(file) == IF file.text = "ok" THEN <<file.ast>> ELSE <<>>

scanFileNoCatch(filePath, file, cache, seen) ==
    [violations |-> <<>>, cache |-> cache, seenKeys |-> seen,
     raised |-> ~file.readable \/ file.text = "malformed"]

\* JSScanner.scanFile: the violations returned, the memo table and seenKeys
\* afterwards, and whether an exception left the call (every throwing step
\* sits in a try block)
scanFile(filePath, file, cache, seen) ==
    LET none == [violations |-> <<>>, cache |-> cache, seenKeys |-> seen,
                 raised |-> FALSE]
        isTS == filePath.ext \in {".ts", ".tsx"}
        isJS == filePath.ext \in {".js", ".jsx"}
        ast == safeParse(file)
    IN IF ~file.readable THEN none
       ELSE IF ~(isTS \/ isJS) THEN none
       ELSE IF ast = <<>> THEN none
       ELSE LET st == VisitAll(Walk(ast[1], ""), filePath,
                               WalkState(cache, seen))
            IN [violations |-> st.violations, cache |-> st.cache,
                seenKeys |-> st.seenKeys, raised |-> FALSE]

-----------------------------------------------------------------------------
(* CSS Scanner *)

\* the literal "unknown" that stands for a line the code did not find
UnknownLine == 0

\* what doiuse hands to onFeatureUsage: the feature id, the postcss node of
\* the usage (its position is node.source.start) and a message that names
\* the feature and the place
CSSUsage(feature, line) ==
    [feature |-> feature,
     usage |-> [type |-> "decl", source |-> [start |-> [line |-> line]]],
     message |-> <<feature, line>>]

\* a stylesheet: whether it can be read and processed, and the usages the
\* analyzer reports for it
CSSFile(status, usages) == [status |-> status, usages |-> usages]

CSSFileContents ==
    {CSSFile("unreadable", <<>>), CSSFile("blank", <<>>)}
    \cup {CSSFile(st, us) :
            st \in {"ok", "fails"},
            us \in {<<CSSUsage(s_gap, 1)>>, <<CSSUsage(s_foo, 1)>>}}
    \cup {CSSFile("ok", <<CSSUsage(s_gap, 1), CSSUsage(s_gap, 2)>>)}

\* usage.usage?.start?.line || "unknown"
usageLine(usage) ==
    IF "start" \in DOMAIN usage.usage THEN usage.usage.start.line
    ELSE UnknownLine

\* the onFeatureUsage callback of CSSScanner.scanFiles
onFeatureUsage(usage, filePath, st) ==
    LET ic == isCompliant(st.cache, usage.feature)
    IN IF ic.outcome.kind = "throw" THEN [st EXCEPT !.thrown = TRUE]
       ELSE IF ic.outcome.value THEN [st EXCEPT !.cache = ic.cache]
       ELSE [st EXCEPT !.cache = ic.cache,
                       !.violations = Append(@,
                           [file |-> filePath, line |-> usageLine(usage),
                            feature |-> usage.feature, type |-> "css",
                            message |-> usage.message])]

\* a processor.process call that has not settled: the callbacks still to
\* come, and whether the call ends rejected
Job(filePath, file) ==
    [filePath |-> filePath, pending |-> file.usages,
     fails |-> file.status = "fails"]

NotAwaited(jobs) == TRUE

\* await processor.process(...): the loop goes on when the call has settled
Awaited(jobs) == jobs = {}

CatchRethrows(files) == [escaped |-> TRUE, files |-> <<>>]

\* catch (err) { Logger.warn(...) } inside the loop: nothing escapes and the
\* loop goes on with the files that are left
Catch(files) == [escaped |-> FALSE, files |-> files]

-----------------------------------------------------------------------------
(* Configuration and data *)

Date(y, m, d) == [y |-> y, m |-> m, d |-> d]

Feature(baseline, low, high) ==
    [status |-> [baseline |-> baseline, baseline_low_date |-> low,
                 baseline_high_date |-> high]]

Dates == {Date(2020, 6, 15), Date(2021, 1, 1)}

Baselines == {"high", "low", "false"}

FeatureRecords ==
    {Feature(b, l, h) : b \in Baselines, l \in Dates \cup {NoDate},
                        h \in {Date(2020, 6, 15), NoDate}}

\* a dataset: a function from the ids it holds to their records
Dataset(ids, recs) == [id \in ids |-> recs[id]]

\* datasets with lower-case keys, and datasets whose one key has a capital
OracleDatasets ==
    {Dataset(ids, (s_at :> a) @@ (s_fetch :> f)) :
        ids \in SUBSET {s_at, s_fetch},
        a \in FeatureRecords,
        f \in {Feature("high", NoDate, NoDate),
               Feature("low", Date(2020, 6, 15), NoDate)}}
    \cup {Dataset({s_At}, s_At :> a) :
            a \in {Feature("high", NoDate, NoDate),
                   Feature("low", Date(2020, 6, 15), NoDate)}}

\* the contents data.json has at one time or another while a process lives
ReloadDatasets ==
    {Dataset(ids, s_at :> a) :
        ids \in SUBSET {s_at},
        a \in {Feature("high", Date(2020, 6, 15), Date(2020, 6, 15)),
               Feature("low", Date(2020, 6, 15), NoDate)}}

RunDatasets ==
    {Dataset(ids, (s_at :> a) @@ (s_gap :> Feature("low", Date(2020, 6, 15), NoDate))) :
        ids \in {{s_at, s_gap}, {s_gap}},
        a \in {Feature("high", Date(2020, 6, 15), Date(2020, 6, 15)),
               Feature("low", Date(2020, 6, 15), NoDate),
               Feature("false", NoDate, NoDate)}}

Targets == {s_widely, s_Newly, s_2020, s_bogus}

Whitelists == {{}, {s_at}, {s_At}}

\* the resolved configurations: every target and strictness, with the
\* whitelist, ignoreCommonFalsePositives (default true) and dryRun (default
\* false) varied one at a time
Configs ==
    {c \in [targetBaseline : Targets, failOnNewly : BOOLEAN, dryRun : BOOLEAN,
            jsWhitelist : Whitelists,
            jsSettings : [ignoreCommonFalsePositives : BOOLEAN]] :
        /\ ~c.jsSettings.ignoreCommonFalsePositives => c.jsWhitelist = {s_at}
        /\ c.dryRun => (c.jsWhitelist = {}
                        /\ c.jsSettings.ignoreCommonFalsePositives)}

NoCall ==
    [name |-> <<>>, hit |-> FALSE,
     outcome |-> [kind |-> "none", value |-> FALSE, error |-> ""]]
NoScan == [called |-> FALSE, filePath |-> Path(0, ""), file |-> Unreadable,
           result |-> <<>>, raised |-> FALSE]

-----------------------------------------------------------------------------
(* The run of main() *)

\* the state after the module's top level ran: new Config(),
\* new FeatureManager()
Constructed ==
    /\ features = [loaded |-> FALSE, data |-> <<>>]
    /\ config \in Configs
    /\ compliantCache = <<>>
    /\ seenKeys = {}
    /\ violations = <<>>
    /\ cssViolations = <<>>
    /\ inFlight = {}
    /\ pc = "start"
    /\ jsFiles = <<>>
    /\ cssFiles = <<>>
    /\ exitCode = 0 - 1
    /\ lastCall = NoCall
    /\ returned = {}
    /\ lastScan = NoScan
    /\ log = <<>>

\* the run's datasets hold no date on a year's first day, so the time zone
\* changes nothing in it
Init == Constructed /\ TZ = 0

\* FeatureManager.loadFeatures finds a data.json with a features object
LoadFeatures(d) ==
    /\ pc = "start"
    /\ features' = [loaded |-> TRUE, data |-> d]
    /\ pc' = "glob"
    /\ UNCHANGED <<config, TZ, compliantCache, seenKeys, violations,
                   cssViolations, inFlight, jsFiles, cssFiles, exitCode,
                   lastCall, returned, lastScan, log>>

\* loadFeatures throws: main's catch exits with code 1
LoadFeaturesFails ==
    /\ pc = "start"
    /\ pc' = "exited"
    /\ exitCode' = 1
    /\ UNCHANGED <<features, config, TZ, compliantCache, seenKeys, violations,
                   cssViolations, inFlight, jsFiles, cssFiles, lastCall,
                   returned, lastScan, log>>

JsPaths(n) == [i \in 1..n |-> Path(i, ".js")]
CssPaths(n) == [i \in 1..n |-> Path(i, ".css")]

\* glob and the two filters of main; the projects taken are those with
\* scripts and at most one stylesheet, and those with stylesheets only
Glob ==
    /\ pc = "glob"
    /\ \E n \in 0..MaxJsFiles, m \in 0..MaxCssFiles, mjs \in BOOLEAN :
         /\ jsFiles' = IF mjs /\ n > 0
                       THEN [JsPaths(n) EXCEPT ![1] = Path(1, ".mjs")]
                       ELSE JsPaths(n)
         /\ mjs => n = 1
         /\ m > 1 => n = 0
         /\ cssFiles' = CssPaths(m)
    /\ pc' = "scanJS"
    /\ UNCHANGED <<features, config, TZ, compliantCache, seenKeys, violations,
                   cssViolations, inFlight, exitCode, lastCall, returned,
                   lastScan, log>>

\* what the log keeps of a script file
jsOutcome(file) == IF file.readable THEN file.text ELSE "unreadable"

\* one iteration of main's loop over jsFiles; an exception that leaves
\* scanFile reaches main's catch
ScanJSFile ==
    /\ pc = "scanJS"
    /\ jsFiles # <<>>
    /\ \E file \in JSFileContents :
         \E r \in {scanFile(Head(jsFiles), file, compliantCache, seenKeys)} :
            /\ violations' = violations \o r.violations
            /\ compliantCache' = r.cache
            /\ seenKeys' = r.seenKeys
            /\ lastScan' = [called |-> TRUE, filePath |-> Head(jsFiles),
                            file |-> file, result |-> r.violations,
                            raised |-> r.raised]
            /\ log' = Append(log, [filePath |-> Head(jsFiles),
                                   outcome |-> jsOutcome(file)])
            /\ pc' = IF r.raised THEN "exited" ELSE pc
            /\ exitCode' = IF r.raised THEN 1 ELSE exitCode
    /\ jsFiles' = Tail(jsFiles)
    /\ UNCHANGED <<features, config, TZ, cssViolations, inFlight, cssFiles,
                   lastCall, returned>>

\* main calls cssScanner.scanFiles(cssFiles)
StartCSS ==
    /\ pc = "scanJS"
    /\ jsFiles = <<>>
    /\ pc' = "scanCSS"
    /\ cssViolations' = <<>>
    /\ lastScan' = NoScan
    /\ UNCHANGED <<features, config, TZ, compliantCache, seenKeys, violations,
                   inFlight, jsFiles, cssFiles, exitCode, lastCall, returned,
                   log>>

\* the loop of CSSScanner.scanFiles takes the next file: a read that fails
\* goes to the catch, a blank file is skipped, any other file is handed to
\* processor.process
ScanCSSFile ==
    /\ pc = "scanCSS"
    /\ cssFiles # <<>>
    /\ Awaited(inFlight)
    /\ \E file \in CSSFileContents :
         LET filePath == Head(cssFiles)
             c == Catch(Tail(cssFiles))
         IN IF file.status = "unreadable"
            THEN /\ cssFiles' = c.files
                 /\ pc' = IF c.escaped THEN "exited" ELSE pc
                 /\ exitCode' = IF c.escaped THEN 1 ELSE exitCode
                 /\ log' = Append(log, [filePath |-> filePath,
                                        outcome |-> "unreadable"])
                 /\ UNCHANGED inFlight
            ELSE IF file.status = "blank"
            THEN /\ cssFiles' = Tail(cssFiles)
                 /\ log' = Append(log, [filePath |-> filePath,
                                        outcome |-> "blank"])
                 /\ UNCHANGED <<inFlight, pc, exitCode>>
            ELSE /\ cssFiles' = Tail(cssFiles)
                 /\ inFlight' = inFlight \cup {Job(filePath, file)}
                 /\ UNCHANGED <<pc, exitCode, log>>
    /\ UNCHANGED <<features, config, TZ, compliantCache, seenKeys, violations,
                   cssViolations, jsFiles, lastCall, returned, lastScan>>

\* doiuse calls onFeatureUsage for the next usage of a file being processed;
\* an exception in the callback rejects the call
OnFeatureUsage ==
    /\ pc = "scanCSS"
    /\ \E job \in inFlight :
         /\ job.pending # <<>>
         /\ \E st \in {onFeatureUsage(Head(job.pending), job.filePath,
                         [cache |-> compliantCache,
                          violations |-> cssViolations, thrown |-> FALSE])} :
               /\ cssViolations' = st.violations
               /\ compliantCache' = st.cache
               /\ inFlight' = (inFlight \ {job}) \cup
                     {IF st.thrown
                      THEN [job EXCEPT !.pending = <<>>, !.fails = TRUE]
                      ELSE [job EXCEPT !.pending = Tail(@)]}
    /\ UNCHANGED <<features, config, TZ, seenKeys, violations, pc, jsFiles,
                   cssFiles, exitCode, lastCall, returned, lastScan, log>>

\* a processor.process call settles: fulfilled after its last callback, or
\* rejected at any point, which the catch absorbs
ProcessSettles ==
    /\ pc = "scanCSS"
    /\ \E job \in inFlight :
         /\ job.pending = <<>> \/ job.fails
         /\ inFlight' = inFlight \ {job}
         /\ log' = Append(log, [filePath |-> job.filePath,
                                outcome |-> IF job.fails THEN "fails"
                                            ELSE "ok"])
         /\ LET c == Catch(cssFiles)
            IN IF job.fails
               THEN /\ cssFiles' = c.files
                    /\ pc' = IF c.escaped THEN "exited" ELSE pc
                    /\ exitCode' = IF c.escaped THEN 1 ELSE exitCode
               ELSE UNCHANGED <<cssFiles, pc, exitCode>>
    /\ UNCHANGED <<features, config, TZ, compliantCache, seenKeys, violations,
                   cssViolations, jsFiles, lastCall, returned, lastScan>>

exitCodeIgnoresDryRun(found) ==
    IF Len(found) > 0 THEN IF config.failOnNewly THEN 1 ELSE 0 ELSE 0

\* the code main exits with once the reports are written
exitCodeFor(found) ==
    IF Len(found) > 0
    THEN IF ~config.dryRun /\ config.failOnNewly THEN 1 ELSE 0
    ELSE 0

\* scanFiles returns; main merges, reports and exits
Finish ==
    /\ pc = "scanCSS"
    /\ cssFiles = <<>>
    /\ Awaited(inFlight)
    /\ violations' = violations \o cssViolations
    /\ exitCode' = exitCodeFor(violations \o cssViolations)
    /\ pc' = "exited"
    /\ UNCHANGED <<features, config, TZ, compliantCache, seenKeys,
                   cssViolations, inFlight, jsFiles, cssFiles, lastCall,
                   returned, lastScan, log>>

Next ==
    \/ \E d \in RunDatasets : LoadFeatures(d)
    \/ LoadFeaturesFails
    \/ Glob
    \/ ScanJSFile
    \/ StartCSS
    \/ ScanCSSFile
    \/ OnFeatureUsage
    \/ ProcessSettles
    \/ Finish

Spec == Init /\ [][Next]_vars

-----------------------------------------------------------------------------
(* The oracle on its own: a loaded FeatureManager answering isCompliant     *)
(* for the candidates the scanners hand it, under a fixed policy           *)

OracleInit ==
    /\ Constructed
    /\ TZ \in TimeZones
    /\ config.jsWhitelist = {}
    /\ config.jsSettings.ignoreCommonFalsePositives
    /\ ~config.dryRun

CandidateNames == {s_at, s_At, s_fetch, s_foo, s_constructor}

\* a call of featureManager.isCompliant(featureName)
CallIsCompliant(featureName) ==
    LET ic == isCompliant(compliantCache, featureName)
    IN /\ compliantCache' = ic.cache
       /\ lastCall' = [name |-> featureName, hit |-> ic.hit,
                       outcome |-> ic.outcome]
       /\ returned' = IF ic.outcome.kind = "return"
                      THEN returned \cup {<<featureName, ic.outcome.value>>}
                      ELSE returned
       /\ UNCHANGED <<features, config, TZ, seenKeys, violations,
                      cssViolations, inFlight, pc, jsFiles, cssFiles,
                      exitCode, lastScan, log>>

OracleNext ==
    \/ \E d \in OracleDatasets : LoadFeatures(d)
    \/ \E n \in CandidateNames : CallIsCompliant(n)

OracleSpec == OracleInit /\ [][OracleNext]_vars

-----------------------------------------------------------------------------
(* The oracle in a process that loads the dataset more than once: the      *)
(* exported FeatureManager with loadFeatures called again after data.json  *)
(* changed                                                                 *)

\* loadFeatures on a manager that holds a dataset already: this.features is
\* replaced, nothing else is touched; lastCall starts anew with the dataset
ReloadFeatures(d) ==
    /\ features.loaded
    /\ features' = [loaded |-> TRUE, data |-> d]
    /\ lastCall' = NoCall
    /\ UNCHANGED <<config, TZ, compliantCache, seenKeys, violations,
                   cssViolations, inFlight, pc, jsFiles, cssFiles, exitCode,
                   returned, lastScan, log>>

ReloadNames == {s_at, s_foo}

ReloadNext ==
    \/ \E d \in ReloadDatasets : LoadFeatures(d)
    \/ \E d \in ReloadDatasets : ReloadFeatures(d)
    \/ \E n \in ReloadNames : CallIsCompliant(n)

ReloadSpec == OracleInit /\ [][ReloadNext]_vars

-----------------------------------------------------------------------------
(* The script scanner in a program that keeps it: the exported JSScanner   *)
(* with scanFile called any number of times on a file                      *)

\* jsScanner.scanFile(filePath) on its own: the scanner's seenKeys and the
\* manager's memo table are what the call leaves behind
CallScanFile(filePath, file) ==
    /\ \E r \in {scanFile(filePath, file, compliantCache, seenKeys)} :
         /\ compliantCache' = r.cache
         /\ seenKeys' = r.seenKeys
         /\ lastScan' = [called |-> TRUE, filePath |-> filePath,
                         file |-> file, result |-> r.violations,
                         raised |-> r.raised]
    /\ UNCHANGED <<features, config, TZ, violations, cssViolations, inFlight,
                   pc, jsFiles, cssFiles, exitCode, lastCall, returned, log>>

RescanNext ==
    \/ \E d \in RunDatasets : LoadFeatures(d)
    \/ \E file \in JSFileContents : CallScanFile(Path(1, ".js"), file)

RescanSpec == Init /\ [][RescanNext]_vars

-----------------------------------------------------------------------------
(* Properties of the oracle (OracleSpec) *)

\* the last call returned a decision for a loaded dataset
Answered == features.loaded /\ lastCall.outcome.kind = "return"

\* the last call was for a feature id the dataset holds
AskedKnown == Answered /\ lastCall.name \in DOMAIN features.data

AskedStatus == features.data[lastCall.name].status

LowerTarget == toLowerCase(config.targetBaseline)

ValidYearTarget ==
    LowerTarget \notin {s_widely, s_newly} /\ ~parseInt(LowerTarget).nan

InvalidTarget ==
    LowerTarget \notin {s_widely, s_newly} /\ parseInt(LowerTarget).nan

\* C1: a feature id absent from the loaded dataset is compliant under every
\* policy.
C1_OpenWorldDefault ==
    (Answered /\ lastCall.name \notin DOMAIN features.data)
        => lastCall.outcome.value = TRUE

\* C2: under target "widely" a feature of the dataset is compliant if and
\* only if its baseline level is high, whatever strict is.
C2_WidelyRule ==
    (AskedKnown /\ LowerTarget = s_widely)
        => (lastCall.outcome.value <=> AskedStatus.baseline = "high")

C2_Witness ==
    /\ AskedKnown
    /\ LowerTarget = s_widely
    /\ AskedStatus.baseline = "low"
    /\ ~config.failOnNewly
    /\ lastCall.outcome.value = FALSE

\* C3: under target "newly" a feature of the dataset is compliant if and
\* only if its baseline level is high, or low with strict false.
C3_NewlyRule ==
    (AskedKnown /\ LowerTarget = s_newly)
        => (lastCall.outcome.value <=>
              \/ AskedStatus.baseline = "high"
              \/ (AskedStatus.baseline = "low" /\ ~config.failOnNewly))

C3_Witness ==
    /\ AskedKnown
    /\ LowerTarget = s_newly
    /\ AskedStatus.baseline = "low"
    /\ ~config.failOnNewly
    /\ lastCall.outcome.value = TRUE

\* the year the claim compares: the year written in the low date, else the
\* year written in the high date
ComparisonYear(status) ==
    IF status.baseline_low_date # NoDate THEN status.baseline_low_date.y
    ELSE status.baseline_high_date.y

\* C4: under a year target Y a feature of the dataset is compliant if and
\* only if the year of its low date (else of its high date) is <= Y; with no
\* date it is compliant if and only if its baseline level is high.
C4_YearRule ==
    (AskedKnown /\ ValidYearTarget)
        => IF /\ AskedStatus.baseline_low_date = NoDate
              /\ AskedStatus.baseline_high_date = NoDate
           THEN lastCall.outcome.value <=> AskedStatus.baseline = "high"
           ELSE lastCall.outcome.value <=>
                  ComparisonYear(AskedStatus) <= parseInt(LowerTarget).val

\* C5: under every target, strict with a low baseline level is non-compliant.
C5_StrictnessOverride ==
    (AskedKnown /\ config.failOnNewly /\ AskedStatus.baseline = "low")
        => lastCall.outcome.value = FALSE

\* C6: with a target that is none of "widely", "newly" or a year, every
\* isCompliant call fails with an error and memoizes nothing.
C6_InvalidPolicyHardStop ==
    (features.loaded /\ lastCall.outcome.kind # "none" /\ InvalidTarget)
        => /\ lastCall.outcome.kind = "throw"
           /\ CacheKey(lastCall.name) \notin DOMAIN compliantCache

\* what isCompliant computes for a name when the memo table is empty
Recomputed(name) == isCompliant(<<>>, name).outcome.value

\* C7: for a fixed dataset and policy all calls with the same feature id
\* return the same boolean, and every memoized value equals the value
\* recomputation without the memo returns for its key.
C7_MemoDeterminism ==
    features.loaded =>
        /\ \A r1, r2 \in returned : r1[1] = r2[1] => r1[2] = r2[2]
        /\ \A r \in returned : r[2] = Recomputed(r[1])
        /\ \A n \in CandidateNames :
             CacheKey(n) \in DOMAIN compliantCache
                => compliantCache[CacheKey(n)] = Recomputed(n)

C7_Witness ==
    /\ Answered
    /\ lastCall.hit
    /\ lastCall.outcome.value = FALSE
    /\ \E r \in returned : r[1] # lastCall.name /\ r[2] = TRUE

\* C18: after the dataset was replaced, a call returns the decision computed
\* from the dataset and policy in force, not one memoized before.
C18_MemoInvalidation ==
    Answered => lastCall.outcome.value = Recomputed(lastCall.name)

\* the ids of the dataset that equal the name when letter case is ignored
KeysFor(name) ==
    {k \in DOMAIN features.data : toLowerCase(k) = toLowerCase(name)}

\* C19: the calls for the letter-case variants of an id of the dataset all
\* return the decision of that id's record, whatever the case of the
\* dataset's key and of the candidate.
C19_CaseInsensitiveLookup ==
    features.loaded =>
        \A r \in returned : \A k \in KeysFor(r[1]) :
            r[2] = ComputeCompliance(features.data[k].status)

\* C26: under a valid target, a feature of the dataset is in the set
\* getCompliantFeatureIds returns if and only if isCompliant returns true
\* for it under the same policy.
C26_OraclesAgree ==
    (AskedKnown /\ ~InvalidTarget) =>
        (lastCall.name \in getCompliantFeatureIds(config.targetBaseline,
                                                  config.failOnNewly).ids
            <=> lastCall.outcome.value)

-----------------------------------------------------------------------------
(* Properties of the script scanner (Spec) *)

\* no whitelist entry equals the name when letter case is ignored
NotWhitelisted(name) ==
    \A w \in config.jsWhitelist : toLowerCase(w) # toLowerCase(name)

\* the oracle marks the name non-compliant
NonCompliant(name) == features.loaded /\ ~Recomputed(toLowerCase(name))

\* the last scanFile call parsed a script file with this body
Scanned(body) ==
    /\ lastScan.called
    /\ lastScan.filePath.ext = ".js"
    /\ lastScan.file = Parsed(body)

\* the records of the last scanFile call for a line and a name
RecordsFor(line, name) ==
    {i \in DOMAIN lastScan.result :
        /\ lastScan.result[i].file = lastScan.filePath
        /\ lastScan.result[i].line = line
        /\ lastScan.result[i].feature = toLowerCase(name)}

\* C8: an identifier that matches a whitelist entry, letter case ignored, is
\* never reported by the script scanner, whatever the other settings are.
C8_WhitelistPrecedence ==
    \A i \in DOMAIN violations :
        violations[i].type = "js" => NotWhitelisted(violations[i].feature)

\* C9: a call whose callee name is non-compliant and not whitelisted yields
\* exactly one record for (file, line, name), of kind js, and it is the first
\* match: the member access for `array.at(-1);`, the call for `at();`.
C9_DedupAtCallSite ==
    \A n \in {s_at, s_At} :
        /\ (/\ Scanned(<<CallMemberStmt(n, 1)>>)
            /\ NonCompliant(n) /\ NotWhitelisted(n))
              => /\ Cardinality(RecordsFor(1, n)) = 1
                 /\ \A i \in RecordsFor(1, n) :
                      /\ lastScan.result[i].type = "js"
                      /\ lastScan.result[i].context = "property_access"
        /\ (/\ Scanned(<<BareCallStmt(n, 1)>>)
            /\ NonCompliant(n) /\ NotWhitelisted(n))
              => /\ Cardinality(RecordsFor(1, n)) = 1
                 /\ \A i \in RecordsFor(1, n) :
                      /\ lastScan.result[i].type = "js"
                      /\ lastScan.result[i].context = "function_call"

C9_Witness ==
    /\ Scanned(<<CallMemberStmt(s_at, 1)>>)
    /\ LowerTarget = s_widely
    /\ s_at \in DOMAIN features.data
    /\ features.data[s_at].status.baseline = "low"
    /\ Len(lastScan.result) = 1
    /\ lastScan.result[1].feature = s_at
    /\ lastScan.result[1].type = "js"

\* C10: scanning `const at = 5;` yields no record for `at`, for every
\* dataset and policy.
C10_DeclarationExemption ==
    \A n \in {s_at, s_At} :
        Scanned(<<DeclStmt(n, 1)>>) => RecordsFor(1, n) = {}

C10_Witness ==
    /\ Scanned(<<DeclStmt(s_at, 1)>>)
    /\ NonCompliant(s_at)
    /\ config.jsWhitelist = {}
    /\ lastScan.result = <<>>

\* C11: scanning `array.at = 5;` yields no record for `at`, for every
\* dataset and policy.
C11_AssignmentExemption ==
    Scanned(<<AssignMemberStmt(s_at, 1)>>) => RecordsFor(1, s_at) = {}

\* C21: a scanFile call returns what a scan of the same file with a new
\* scanner and an empty memo table returns, whatever was scanned before.
C21_RebuiltPerInvocation ==
    lastScan.called =>
        lastScan.result =
            scanFile(lastScan.filePath, lastScan.file, <<>>, {}).violations

\* C22: scanning `array[at]();` yields no function_call record for `at`.
C22_CallCandidates ==
    Scanned(<<ComputedCallStmt(s_at, 1)>>) =>
        \A i \in RecordsFor(1, s_at) :
            lastScan.result[i].context # "function_call"

\* C23: scanning `const x = at;` with `at` non-compliant and not whitelisted
\* yields a record for `at` on the line of the reference.
C23_BareNameCandidates ==
    (/\ Scanned(<<RefStmt(s_at, 1)>>)
     /\ NonCompliant(s_at) /\ NotWhitelisted(s_at))
        => RecordsFor(1, s_at) # {}

-----------------------------------------------------------------------------
(* Properties of the run (Spec) *)

\* reading or parsing the script file fails
FailsToParse(file) == ~file.readable \/ file.text = "malformed"

\* C12: while script files are left, the step main takes scans the first of
\* them without an exception and without ending the run, adds exactly the
\* records scanFile returned to the run's list, which are none when reading
\* or parsing failed, and goes on with the files after it; the list reaches
\* the end of the run whole.
C12_ParseErrorsRecoverable ==
    [][/\ (pc = "scanJS" /\ jsFiles # <<>>) =>
            /\ pc' = "scanJS"
            /\ exitCode' = exitCode
            /\ jsFiles' = Tail(jsFiles)
            /\ lastScan'.called
            /\ lastScan'.filePath = Head(jsFiles)
            /\ ~lastScan'.raised
            /\ violations' = violations \o lastScan'.result
            /\ (FailsToParse(lastScan'.file) => lastScan'.result = <<>>)
       /\ (pc \in {"scanJS", "scanCSS"} /\ jsFiles = <<>>) =>
            SubSeq(violations', 1, Len(violations)) = violations
      ]_vars

C12_Witness ==
    /\ Len(log) = 2
    /\ log[1] = [filePath |-> Path(1, ".js"), outcome |-> "malformed"]
    /\ log[2] = [filePath |-> Path(2, ".js"), outcome |-> "ok"]
    /\ lastScan.filePath = Path(2, ".js")
    /\ ~lastScan.raised
    /\ Len(lastScan.result) = 1
    /\ violations = lastScan.result

\* C13: inside scanFiles no step ends the run or drops a file or a record:
\* the loop takes the files one by one to the last, whatever failed, the
\* records only grow, and the run ends when scanFiles has returned the list
\* to main, which appends all of it.
C13_StylePartialFailure ==
    [][pc = "scanCSS" =>
         /\ \/ cssFiles' = cssFiles
            \/ cssFiles # <<>> /\ cssFiles' = Tail(cssFiles)
         /\ Len(cssViolations') >= Len(cssViolations)
         /\ SubSeq(cssViolations', 1, Len(cssViolations)) = cssViolations
         /\ pc' # "scanCSS" =>
              /\ cssFiles = <<>>
              /\ inFlight = {}
              /\ pc' = "exited"
              /\ violations' = violations \o cssViolations
      ]_vars

C13_Witness ==
    /\ pc = "exited"
    /\ Len(log) = 2
    /\ log[1] = [filePath |-> Path(1, ".css"), outcome |-> "fails"]
    /\ log[2] = [filePath |-> Path(2, ".css"), outcome |-> "ok"]
    /\ \E i \in DOMAIN violations :
         /\ violations[i].file = Path(2, ".css")
         /\ violations[i].type = "css"

\* the record the claim describes for a usage the analyzer reported
UsageRecord(filePath, usage) ==
    [file |-> filePath, line |-> usage.usage.source.start.line,
     feature |-> usage.feature, type |-> "css", message |-> usage.message]

\* the job made this step's callback: its first pending usage was reported
CalledBack(job) ==
    /\ job.pending # <<>>
    /\ job \notin inFlight'
    /\ [job EXCEPT !.pending = Tail(@)] \in inFlight'

\* C14: a usage the analyzer reports adds the record with its file, line,
\* feature id and message if the oracle says non-compliant and adds nothing
\* otherwise; nothing else adds a record to the style scanner's list.
C14_StyleViolations ==
    [][pc = "scanCSS" =>
         /\ \A job \in inFlight :
              CalledBack(job) =>
                cssViolations' =
                    IF Recomputed(Head(job.pending).feature)
                    THEN cssViolations
                    ELSE Append(cssViolations,
                                UsageRecord(job.filePath, Head(job.pending)))
         /\ cssViolations' # cssViolations =>
              \E job \in inFlight : CalledBack(job)
      ]_vars

\* C15: a run whose dataset is missing or whose target is none of "widely",
\* "newly" or a year scans no file, produces no list and ends with an error.
C15_FatalBeforeScanning ==
    (~features.loaded \/ InvalidTarget) =>
        /\ log = <<>>
        /\ ~lastScan.called
        /\ violations = <<>>
        /\ cssViolations = <<>>
        /\ pc = "exited" => exitCode = 1

\* the records of one kind, in the order of the list
OfType(list, t) == SelectSeq(list, LAMBDA r : r.type = t)

\* earlier files' records come first
InFileOrder(list) ==
    \A i, j \in DOMAIN list : i < j => list[i].file.id <= list[j].file.id

\* C16: at most one stylesheet is being processed at a time, the records
\* made so far belong to it or to files before it, the scanners are done
\* with the files in list order, and in every list each record of an
\* earlier file precedes each record of a later file.
C16_SequentialScanning ==
    /\ Cardinality(inFlight) <= 1
    /\ \A job \in inFlight :
         /\ \A i \in DOMAIN cssViolations :
              cssViolations[i].file.id <= job.filePath.id
         /\ \A i \in DOMAIN log :
              log[i].filePath.ext = ".css" =>
                  log[i].filePath.id < job.filePath.id
    /\ \A i, j \in DOMAIN log :
         (i < j /\ log[i].filePath.ext = log[j].filePath.ext)
            => log[i].filePath.id < log[j].filePath.id
    /\ InFileOrder(cssViolations)
    /\ InFileOrder(OfType(violations, "js"))
    /\ InFileOrder(OfType(violations, "css"))
    /\ \A i, j \in DOMAIN violations :
         (violations[i].type = "js" /\ violations[j].type = "css") => i < j

C16_Witness ==
    /\ pc = "exited"
    /\ Len(violations) = 2
    /\ violations[1].file = Path(1, ".css")
    /\ violations[2].file = Path(2, ".css")
    /\ Len(log) = 2

\* C17: a run that loaded the dataset and finished scanning exits with code
\* 1 if and only if it found a violation, failOnNewly is true and dryRun is
\* false, and with code 0 otherwise.
C17_CIOutcome ==
    (pc = "exited" /\ features.loaded) =>
        /\ exitCode \in {0, 1}
        /\ exitCode = 1 <=>
              (Len(violations) > 0 /\ config.failOnNewly /\ ~config.dryRun)

C17_Witness ==
    /\ pc = "exited"
    /\ features.loaded
    /\ Len(violations) > 0
    /\ config.failOnNewly
    /\ config.dryRun
    /\ exitCode = 0

\* C20: the run's list, script and style records together, holds no two
\* records with the same file, line and feature id.
C20_RunWideDedup ==
    LET all == IF pc = "exited" THEN violations
               ELSE violations \o cssViolations
    IN \A i, j \in DOMAIN all :
         i # j => <<all[i].file, all[i].line, all[i].feature>>
                    # <<all[j].file, all[j].line, all[j].feature>>

\* C24: a stylesheet whose reading or processing failed has no record in
\* the style scanner's list.
C24_FailingStylesheetSkipped ==
    \A i \in DOMAIN log :
        (log[i].filePath.ext = ".css"
         /\ log[i].outcome \in {"fails", "unreadable"})
            => \A k \in DOMAIN cssViolations :
                 cssViolations[k].file # log[i].filePath

\* C25: every record of the run names a feature id of the dataset that
\* isCompliant answers false for; a script record's id is lower-case and not
\* whitelisted.
C25_ViolationListSound ==
    LET all == IF pc = "exited" THEN violations
               ELSE violations \o cssViolations
    IN \A i \in DOMAIN all :
         /\ all[i].feature \in DOMAIN features.data
         /\ ~Recomputed(all[i].feature)
         /\ all[i].type = "js" =>
              /\ all[i].feature = toLowerCase(all[i].feature)
              /\ NotWhitelisted(all[i].feature)

====
